---- MODULE Spec2Model ----
(***************************************************************************)
(* A model of openfl/component/ca/ca.py: the step-ca process manager       *)
(* (run_ca, remove_ca, _check_kill_process), the CA workflow (install,     *)
(* _create_ca, _configure, get_token, certify, download_step_bin), the     *)
(* bootstrap-token wire format, and the step binary path resolution.       *)
(***************************************************************************)
EXTENDS Integers, Sequences, FiniteSets, TLC

VARIABLES
    \* ---- process manager (run_ca / remove_ca / _check_kill_process)
    procs,      \* pids of the live processes whose `ps ax` line matches 'step-ca'
    nextPid,    \* the next pid the OS hands out
    pmPc,       \* position of the process-manager call
    pmOp,       \* "none", "run_ca" or "remove_ca"
    pids,       \* _check_kill_process: the pids list built from the ps output
    todo,       \* _check_kill_process: index of the next pid of the kill loop
    killed,     \* pids os.kill(pid, SIGKILL) succeeded on during this call
    prompted,   \* confirm('CA server is already running. Stop him?') was shown
    slept,      \* time.sleep(2) ran
    ret,        \* return value of _check_kill_process: "none", "True", "False"
    launched,   \* run_ca reached call(f'{step_ca} ...')
    srv,        \* pid of the server run_ca started, 0 when none
    wsRemoved,  \* remove_ca reached shutil.rmtree(ca_path)
    \* ---- binary path resolution (get_step_bin_path / get_step_ca_bin_path)
    bnListing,  \* <ca_path>/step: "absent", or the set of its entry names
    bnResult,   \* "unset", or the outcome of the call
    \* ---- bootstrap token wire format (get_token lines 94-104, certify 131-133)
    tkRaw,      \* stdout of `step ca token`, as bytes
    tkRoot,     \* contents of step_config/certs/root_ca.crt, as bytes
    tkStr,      \* the string get_token returns, as code points
    tkOut,      \* what certify's split and decode made of tkStr
    tkPc,       \* "start", "issued", "decoded"
    \* ---- certificate-lifetime patch (_configure)
    cfOrig,     \* config/ca.json before the first call
    cfPrev,     \* config/ca.json before the latest call
    cfFile,     \* config/ca.json now
    cfRuns,     \* number of _configure calls made
    \* ---- CA workflow (install / _create_ca / get_token / certify)
    env,        \* os.environ['STEPPATH']: "unset", or the workspace whose
                \* step_config directory it names
    fsStep,     \* per workspace: the <ca_path>/step directory listing
    fsBins,     \* per workspace: the <<version dir, file>> binaries that exist
    fsConf,     \* per workspace: step_config and its config/ca.json
    caPc,       \* position of the running operation
    caOp,       \* "none", "install", "get_token" or "certify"
    caWs,       \* the ca_path argument of the running operation
    caTok,      \* certify: token_with_cert; get_token: the string returned
    caDec,      \* certify: outcome of lines 131-133
    calls,      \* toolchain commands run by this operation, in order
    downloads,  \* download_step_bin calls made by this operation
    decision,   \* install: "none", "absent", "confirmed" or "declined"
    created,    \* install: _create_ca was called
    configured, \* install: _configure wrote the patched file
    rootWritten,\* certify: <cert_path>/root_ca.crt was written
    caRes       \* how the operation ended: "none" while it runs, "ok",
                \* "None" (get_token's logged failure) or the exception raised

pmVars == <<procs, nextPid, pmPc, pmOp, pids, todo, killed, prompted, slept, ret,
            launched, srv, wsRemoved>>

bnVars == <<bnListing, bnResult>>

tkVars == <<tkRaw, tkRoot, tkStr, tkOut, tkPc>>

cfVars == <<cfOrig, cfPrev, cfFile, cfRuns>>

fsVars == <<fsStep, fsBins, fsConf>>

opVars == <<caPc, caOp, caWs, caTok, caDec, calls, downloads, decision, created,
            configured, rootWritten, caRes>>

caVars == <<env, fsVars, opVars>>

vars == <<pmVars, bnVars, tkVars, cfVars, caVars>>

\* what the actions of one component leave alone
notPm == <<bnVars, tkVars, cfVars, caVars>>

notBn == <<pmVars, tkVars, cfVars, caVars>>

notTk == <<pmVars, bnVars, cfVars, caVars>>

notCf == <<pmVars, bnVars, tkVars, caVars>>

notCa == <<pmVars, bnVars, tkVars, cfVars>>

(***************************************************************************)
(* Bounds                                                                  *)
(***************************************************************************)
MaxPid == 3
MaxNameLen == 2     \* longest generated version-directory name
MaxEntries == 2     \* most entries of a generated <ca_path>/step listing
MaxTokenBytes == 3  \* longest generated `step ca token` output
MaxRootBytes == 3   \* longest generated root_ca.crt
MaxClaims == 2      \* most entries of a generated authority.claims object
MaxRuns == 2        \* _configure calls made on one file

(***************************************************************************)
(* Helpers                                                                 *)
(***************************************************************************)
Range(s) == {s[i] : i \in 1..Len(s)}

Min(S) == CHOOSE x \in S : \A y \in S : x <= y

\* `ps ax` prints one line per process in pid order; the loop of lines 201-203
\* appends fields[0] of each line.
RECURSIVE PsPids(_)
PsPids(S) == IF S = {} THEN <<>> ELSE <<Min(S)>> \o PsPids(S \ {Min(S)})

(***************************************************************************)
(* Binary path resolution                                                  *)
(***************************************************************************)
\* Directory names are sequences of code points: '.', '0', '1', '9'.
NameChars == {46, 48, 49, 57}

V_1_9_0 == <<49, 46, 57, 46, 48>>

V_1_10_0 == <<49, 46, 49, 48, 46, 48>>

Names == UNION {[1..n -> NameChars] : n \in 1..MaxNameLen} \cup {V_1_9_0, V_1_10_0}

\* Python's str `<`: the first differing code point decides, and a proper
\* prefix is smaller.
RECURSIVE StrLess(_, _)
StrLess(a, b) ==
    IF b = <<>> THEN FALSE
    ELSE IF a = <<>> THEN TRUE
    ELSE IF a[1] # b[1] THEN a[1] < b[1]
    ELSE StrLess(Tail(a), Tail(b))

\* sorted(os.listdir(ca_path)): ascending under StrLess
RECURSIVE Sorted(_)
Sorted(S) ==
    IF S = {} THEN <<>>
    ELSE LET m == CHOOSE x \in S : \A y \in S \ {x} : StrLess(x, y)
         IN  <<m>> \o Sorted(S \ {m})

\* Outcomes of a resolver call
NoPath == [kind |-> "None", dir |-> <<>>, bin |-> ""]

IndexError == [kind |-> "IndexError", dir |-> <<>>, bin |-> ""]

PathOf(d, b) == [kind |-> "path", dir |-> d, bin |-> b]

\* lines 109-114 and 119-124: the two functions differ in the file name only.
\* sorted(...)[-1] on an empty listing raises IndexError.
ResolveBin(listing, bin) ==
    IF ~listing.exists THEN NoPath
    ELSE IF Sorted(listing.names) = <<>> THEN IndexError
    ELSE PathOf(Sorted(listing.names)[Len(Sorted(listing.names))], bin)

get_step_bin_path(listing) == ResolveBin(listing, "step")

get_step_ca_bin_path(listing) == ResolveBin(listing, "step-ca")

AbsentDir == [exists |-> FALSE, names |-> {}]

\* The subsets of S with at most k elements
RECURSIVE SetsUpTo(_, _)
SetsUpTo(S, k) ==
    IF k = 0 THEN {{}}
    ELSE SetsUpTo(S, k - 1) \cup
         {T \cup {x} : T \in SetsUpTo(S, k - 1), x \in S}

Listings ==
    {AbsentDir} \cup
    {[exists |-> TRUE, names |-> S] : S \in SetsUpTo(Names, MaxEntries)}

BnInit ==
    /\ bnListing \in Listings
    /\ bnResult = [fn |-> "unset", out |-> NoPath]

BnOff ==
    /\ bnListing = AbsentDir
    /\ bnResult = [fn |-> "unset", out |-> NoPath]

CallGetStepBinPath ==
    /\ bnResult.fn = "unset"
    /\ bnResult' = [fn |-> "get_step_bin_path", out |-> get_step_bin_path(bnListing)]
    /\ UNCHANGED bnListing
    /\ UNCHANGED notBn

CallGetStepCaBinPath ==
    /\ bnResult.fn = "unset"
    /\ bnResult' = [fn |-> "get_step_ca_bin_path",
                    out |-> get_step_ca_bin_path(bnListing)]
    /\ UNCHANGED bnListing
    /\ UNCHANGED notBn

BnNext ==
    \/ CallGetStepBinPath
    \/ CallGetStepCaBinPath

(***************************************************************************)
(* Bootstrap token wire format                                             *)
(***************************************************************************)
TOKEN_DELIMITER == 46   \* '.'

B64_PAD == 61           \* '='

\* The base64 alphabet: 'A'-'Z', 'a'-'z', '0'-'9', '+', '/'
B64Char(i) ==
    IF i < 26 THEN 65 + i
    ELSE IF i < 52 THEN 97 + (i - 26)
    ELSE IF i < 62 THEN 48 + (i - 52)
    ELSE IF i = 62 THEN 43
    ELSE 47

\* table_a2b_base64: the value of a code point, 64 for one outside the alphabet
B64Value(c) ==
    IF c >= 65 /\ c <= 90 THEN c - 65
    ELSE IF c >= 97 /\ c <= 122 THEN c - 97 + 26
    ELSE IF c >= 48 /\ c <= 57 THEN c - 48 + 52
    ELSE IF c = 43 THEN 62
    ELSE IF c = 47 THEN 63
    ELSE 64

\* base64.b64encode: three bytes make four characters, the last group is padded
RECURSIVE b64encode(_)
b64encode(b) ==
    IF Len(b) = 0 THEN <<>>
    ELSE IF Len(b) = 1 THEN
        <<B64Char(b[1] \div 4), B64Char((b[1] % 4) * 16), B64_PAD, B64_PAD>>
    ELSE IF Len(b) = 2 THEN
        <<B64Char(b[1] \div 4),
          B64Char(((b[1] % 4) * 16) + (b[2] \div 16)),
          B64Char((b[2] % 16) * 4),
          B64_PAD>>
    ELSE
        <<B64Char(b[1] \div 4),
          B64Char(((b[1] % 4) * 16) + (b[2] \div 16)),
          B64Char(((b[2] % 16) * 4) + (b[3] \div 64)),
          B64Char(b[3] % 64)>> \o b64encode(SubSeq(b, 4, Len(b)))

\* base64.b64decode(s) with validate=False, as binascii.a2b_base64 scans it:
\* characters outside the alphabet are skipped, a complete pad sequence ends
\* the scan, and an unfinished quad at the end of the input is an error.
RECURSIVE A2bScan(_, _, _, _, _, _)
A2bScan(s, i, quad, left, pads, out) ==
    IF i > Len(s) THEN
        IF quad # 0 THEN [ok |-> FALSE, bytes |-> <<>>] ELSE [ok |-> TRUE, bytes |-> out]
    ELSE IF s[i] = B64_PAD THEN
        IF quad >= 2 /\ quad + pads + 1 >= 4
          THEN [ok |-> TRUE, bytes |-> out]
          ELSE A2bScan(s, i + 1, quad, left, IF quad >= 2 THEN pads + 1 ELSE pads, out)
    ELSE IF B64Value(s[i]) >= 64 THEN A2bScan(s, i + 1, quad, left, pads, out)
    ELSE LET v == B64Value(s[i]) IN
         IF quad = 0 THEN A2bScan(s, i + 1, 1, v, 0, out)
         ELSE IF quad = 1 THEN
            A2bScan(s, i + 1, 2, v % 16, 0, Append(out, ((left * 4) + (v \div 16)) % 256))
         ELSE IF quad = 2 THEN
            A2bScan(s, i + 1, 3, v % 4, 0, Append(out, ((left * 16) + (v \div 4)) % 256))
         ELSE A2bScan(s, i + 1, 0, 0, 0, Append(out, ((left * 64) + v) % 256))

b64decode(s) == A2bScan(s, 1, 0, 0, 0, <<>>)

\* bytes.strip(): ASCII whitespace removed at both ends
Whitespace == {9, 10, 11, 12, 13, 32}

RECURSIVE LStrip(_)
LStrip(b) == IF b # <<>> /\ b[1] \in Whitespace THEN LStrip(Tail(b)) ELSE b

RECURSIVE RStrip(_)
RStrip(b) ==
    IF b # <<>> /\ b[Len(b)] \in Whitespace THEN RStrip(SubSeq(b, 1, Len(b) - 1)) ELSE b

Strip(b) == RStrip(LStrip(b))

IsCont(c) == c >= 128 /\ c <= 191

\* bytes.decode('utf-8'), strict: the code points, or a failure
RECURSIVE Utf8Scan(_, _)
Utf8Scan(b, out) ==
    IF b = <<>> THEN [ok |-> TRUE, text |-> out]
    ELSE IF b[1] < 128 THEN Utf8Scan(Tail(b), Append(out, b[1]))
    ELSE IF b[1] >= 194 /\ b[1] <= 223 THEN
        IF Len(b) >= 2 /\ IsCont(b[2])
          THEN Utf8Scan(SubSeq(b, 3, Len(b)), Append(out, ((b[1] - 192) * 64) + (b[2] - 128)))
          ELSE [ok |-> FALSE, text |-> <<>>]
    ELSE IF b[1] >= 224 /\ b[1] <= 239 THEN
        IF /\ Len(b) >= 3
           /\ IsCont(b[2])
           /\ IsCont(b[3])
           /\ (b[1] = 224 => b[2] >= 160)
           /\ (b[1] = 237 => b[2] <= 159)
          THEN Utf8Scan(SubSeq(b, 4, Len(b)),
                        Append(out, ((b[1] - 224) * 4096) + ((b[2] - 128) * 64) + (b[3] - 128)))
          ELSE [ok |-> FALSE, text |-> <<>>]
    ELSE IF b[1] >= 240 /\ b[1] <= 244 THEN
        IF /\ Len(b) >= 4
           /\ IsCont(b[2])
           /\ IsCont(b[3])
           /\ IsCont(b[4])
           /\ (b[1] = 240 => b[2] >= 144)
           /\ (b[1] = 244 => b[2] <= 143)
          THEN Utf8Scan(SubSeq(b, 5, Len(b)),
                        Append(out, ((b[1] - 240) * 262144) + ((b[2] - 128) * 4096)
                                    + ((b[3] - 128) * 64) + (b[4] - 128)))
          ELSE [ok |-> FALSE, text |-> <<>>]
    ELSE [ok |-> FALSE, text |-> <<>>]

Utf8Decode(b) == Utf8Scan(b, <<>>)

\* str.split(TOKEN_DELIMITER): the segments between the delimiters
RECURSIVE SplitFrom(_, _, _)
SplitFrom(s, cur, acc) ==
    IF s = <<>> THEN Append(acc, cur)
    ELSE IF s[1] = TOKEN_DELIMITER THEN SplitFrom(Tail(s), <<>>, Append(acc, cur))
    ELSE SplitFrom(Tail(s), Append(cur, s[1]), acc)

Split(s) == SplitFrom(s, <<>>, <<>>)

\* TokenJoin with the two segments in the wrong order
TokenJoinSwapped(token, root_ca) ==
    b64encode(root_ca) \o <<TOKEN_DELIMITER>> \o b64encode(Strip(token))

\* get_token lines 94-104: strip, encode both parts (the encoded bytes are
\* ASCII, so .decode('utf-8') yields the same code points), join.
TokenJoin(token, root_ca) ==
    Utf8Decode(b64encode(Strip(token))).text
        \o <<TOKEN_DELIMITER>> \o Utf8Decode(b64encode(root_ca)).text

Decoded(kind, token, root_ca) == [kind |-> kind, token |-> token, root_ca |-> root_ca]

\* certify lines 131-133.  The tuple assignment raises ValueError unless the
\* split has exactly two segments, b64decode raises binascii.Error and
\* .decode('utf-8') raises UnicodeDecodeError.
CertifyDecode(token_with_cert) ==
    LET parts == Split(token_with_cert) IN
    IF Len(parts) # 2 THEN Decoded("ValueError", <<>>, <<>>)
    ELSE IF ~b64decode(parts[1]).ok THEN Decoded("binascii.Error", <<>>, <<>>)
    ELSE IF ~Utf8Decode(b64decode(parts[1]).bytes).ok
        THEN Decoded("UnicodeDecodeError", <<>>, <<>>)
    ELSE IF ~b64decode(parts[2]).ok THEN Decoded("binascii.Error", <<>>, <<>>)
    ELSE Decoded("ok", Utf8Decode(b64decode(parts[1]).bytes).text, b64decode(parts[2]).bytes)

\* Generated inputs: newline, '.', 'A', the two bytes of U+00E9, and 0xFF
TokenByteVals == {10, 46, 65, 195, 169, 255}

RootByteVals == {46, 65, 255}

SeqsUpTo(S, n) == UNION {[1..k -> S] : k \in 0..n}

TkInit ==
    /\ tkRaw \in SeqsUpTo(TokenByteVals, MaxTokenBytes)
    /\ tkRoot \in SeqsUpTo(RootByteVals, MaxRootBytes)
    /\ tkStr = <<>>
    /\ tkOut = Decoded("unset", <<>>, <<>>)
    /\ tkPc = "start"

TkOff ==
    /\ tkRaw = <<>>
    /\ tkRoot = <<>>
    /\ tkStr = <<>>
    /\ tkOut = Decoded("unset", <<>>, <<>>)
    /\ tkPc = "start"

GetTokenJoin ==
    /\ tkPc = "start"
    /\ tkStr' = TokenJoin(tkRaw, tkRoot)
    /\ tkPc' = "issued"
    /\ UNCHANGED <<tkRaw, tkRoot, tkOut>>
    /\ UNCHANGED notTk

CertifySplitDecode ==
    /\ tkPc = "issued"
    /\ tkOut' = CertifyDecode(tkStr)
    /\ tkPc' = "decoded"
    /\ UNCHANGED <<tkRaw, tkRoot, tkStr>>
    /\ UNCHANGED notTk

TkNext ==
    \/ GetTokenJoin
    \/ CertifySplitDecode

(***************************************************************************)
(* Certificate-lifetime patch                                              *)
(***************************************************************************)
\* A JSON object is the sequence of its <<key, value>> members in file order
\* (json.load builds an insertion-ordered dict); a value is a string or an
\* object.
Str(x) == [t |-> "str", s |-> x, o |-> <<>>]

Obj(members) == [t |-> "obj", s |-> "", o |-> members]

Keys(d) == {d[i][1] : i \in 1..Len(d)}

IndexOf(d, k) == CHOOSE i \in 1..Len(d) : d[i][1] = k

\* d[k]
Get(d, k) == d[IndexOf(d, k)][2]

\* d[k] = v: an existing key keeps its place, a new key goes last
Set(d, k, v) ==
    IF k \in Keys(d)
      THEN [d EXCEPT ![IndexOf(d, k)] = <<k, v>>]
      ELSE Append(d, <<k, v>>)

\* d.setdefault(k, v), as it leaves d
SetDefault(d, k, v) == IF k \in Keys(d) THEN d ELSE Append(d, <<k, v>>)

\* f'{365 * 24}h'
TLSCertDuration == ToString(365 * 24) \o "h"

UserSSHCertDuration == "24h"

\* Patch with the claims object built anew instead of updated
PatchReplacingClaims(data) ==
    LET d1 == SetDefault(data, "authority", Obj(<<>>))
        claims == <<<<"maxTLSCertDuration", Str(TLSCertDuration)>>,
                    <<"defaultTLSCertDuration", Str(TLSCertDuration)>>,
                    <<"maxUserSSHCertDuration", Str(UserSSHCertDuration)>>,
                    <<"defaultUserSSHCertDuration", Str(UserSSHCertDuration)>>>>
    IN  Set(d1, "authority", Obj(Set(Get(d1, "authority").o, "claims", Obj(claims))))

\* lines 249-253, on the loaded document
Patch(data) ==
    LET d1 == SetDefault(data, "authority", Obj(<<>>))
        a1 == SetDefault(Get(d1, "authority").o, "claims", Obj(<<>>))
        c0 == Get(a1, "claims").o
        c1 == Set(c0, "maxTLSCertDuration", Str(TLSCertDuration))
        c2 == Set(c1, "defaultTLSCertDuration", Str(TLSCertDuration))
        c3 == Set(c2, "maxUserSSHCertDuration", Str(UserSSHCertDuration))
        c4 == Set(c3, "defaultUserSSHCertDuration", Str(UserSSHCertDuration))
    IN  Set(d1, "authority", Obj(Set(a1, "claims", Obj(c4))))

\* A file is its document and the indentation it is written with.
JsonLoad(file) == file.doc

\* json.dump(data, f, indent=4) over the whole file (seek(0) ... truncate())
JsonDump(data) == [indent |-> 4, doc |-> data]

\* lines 247-256
Configure(file) == JsonDump(Patch(JsonLoad(file)))

DurationKeys ==
    {"maxTLSCertDuration", "defaultTLSCertDuration",
     "maxUserSSHCertDuration", "defaultUserSSHCertDuration"}

\* Generated ca.json files: authority and authority.claims, where present, are
\* objects, as step-ca writes them.
ClaimKeys == DurationKeys \cup {"minTLSCertDuration"}

ClaimVals == {"5m", "24h"}

InjectiveSeqs(S, n) ==
    UNION {{q \in [1..k -> S] : \A i, j \in 1..k : q[i] = q[j] => i = j} : k \in 0..n}

ClaimsDocs ==
    UNION {{[i \in 1..Len(ks) |-> <<ks[i], Str(vs[i])>>] : vs \in [1..Len(ks) -> ClaimVals]} :
              ks \in InjectiveSeqs(ClaimKeys, MaxClaims)}

Opt(member) == {<<>>, <<member>>}

AuthorityDocs ==
    {p \o c \o t :
        p \in Opt(<<"provisioners", Str("jwk")>>),
        c \in {<<>>} \cup {<<<<"claims", Obj(cl)>>>> : cl \in ClaimsDocs},
        t \in Opt(<<"template", Obj(<<>>)>>)}

ConfigDocs ==
    {r \o a \o d :
        r \in Opt(<<"root", Str("root_ca.crt")>>),
        a \in {<<>>} \cup {<<<<"authority", Obj(au)>>>> : au \in AuthorityDocs},
        d \in Opt(<<"address", Str(":9000")>>)}

ConfigFiles == {[indent |-> n, doc |-> d] : n \in {2, 4}, d \in ConfigDocs}

CfInit ==
    /\ cfOrig \in ConfigFiles
    /\ cfPrev = cfOrig
    /\ cfFile = cfOrig
    /\ cfRuns = 0

CfOff ==
    /\ cfOrig = [indent |-> 4, doc |-> <<>>]
    /\ cfPrev = cfOrig
    /\ cfFile = cfOrig
    /\ cfRuns = 0

_configure ==
    /\ cfRuns < MaxRuns
    /\ cfPrev' = cfFile
    /\ cfFile' = Configure(cfFile)
    /\ cfRuns' = cfRuns + 1
    /\ UNCHANGED cfOrig
    /\ UNCHANGED notCf

CfNext == _configure

(***************************************************************************)
(* CA workflow: install, _create_ca, _configure, get_token, certify         *)
(***************************************************************************)
Workspaces == {"wsA", "wsB"}

\* the directory the release archives unpack into: "1"
ReleaseDir == <<49>>

EmptyFile == [indent |-> 4, doc |-> <<>>]

\* step_config as `step ca init` leaves it
InitFile ==
    [indent |-> 2,
     doc |-> <<<<"root", Str("root_ca.crt")>>,
               <<"address", Str(":9000")>>,
               <<"authority", Obj(<<<<"provisioners", Str("jwk")>>>>)>>>>]

NoConf == [dir |-> FALSE, json |-> FALSE, file |-> EmptyFile]

EmptyConf == [dir |-> TRUE, json |-> FALSE, file |-> EmptyFile]

ConfWith(file) == [dir |-> TRUE, json |-> TRUE, file |-> file]

\* root_ca.crt of an initialized CA, and the token `step ca token` prints
RootCrtBytes == <<65, 46>>

IssuedRaw == <<65, 10>>

\* Tokens handed to certify: well-formed ones and their damaged copies
WellFormedTokens ==
    {TokenJoin(t, r) : t \in {<<65>>, <<255>>}, r \in {<<>>, RootCrtBytes}}

WithoutDelimiter(tok) == SelectSeq(tok, LAMBDA c : c # TOKEN_DELIMITER)

TokenInputs ==
    WellFormedTokens
    \cup {WithoutDelimiter(w) : w \in WellFormedTokens}
    \cup {w \o <<TOKEN_DELIMITER>> \o w : w \in WellFormedTokens}
    \cup {Tail(w) : w \in WellFormedTokens}

Workspace0 ==
    {[step |-> AbsentDir, bins |-> {}, conf |-> NoConf],
     [step |-> [exists |-> TRUE, names |-> {}], bins |-> {}, conf |-> NoConf],
     [step |-> [exists |-> TRUE, names |-> {ReleaseDir}],
      bins |-> {<<ReleaseDir, "step">>, <<ReleaseDir, "step-ca">>},
      conf |-> ConfWith(Configure(InitFile))]}

OpReset ==
    /\ caTok = <<>>
    /\ caDec = Decoded("unset", <<>>, <<>>)
    /\ calls = <<>>
    /\ downloads = 0
    /\ decision = "none"
    /\ created = FALSE
    /\ configured = FALSE
    /\ rootWritten = FALSE
    /\ caRes = "none"

CaInit ==
    /\ env = "unset"
    /\ \E f \in [Workspaces -> Workspace0] :
         /\ fsStep = [w \in Workspaces |-> f[w].step]
         /\ fsBins = [w \in Workspaces |-> f[w].bins]
         /\ fsConf = [w \in Workspaces |-> f[w].conf]
    /\ caPc = "idle"
    /\ caOp = "none"
    /\ caWs = "wsA"
    /\ OpReset

CaOff ==
    /\ env = "unset"
    /\ fsStep = [w \in Workspaces |-> AbsentDir]
    /\ fsBins = [w \in Workspaces |-> {}]
    /\ fsConf = [w \in Workspaces |-> NoConf]
    /\ caPc = "idle"
    /\ caOp = "none"
    /\ caWs = "wsA"
    /\ OpReset

\* path.exists() for a resolved binary path
Exists(ws, path) == path.kind = "path" /\ <<path.dir, path.bin>> \in fsBins[ws]

\* lines 174 and 226: step_path and step_ca_path and both files exist
BinariesPresent(ws) ==
    /\ Exists(ws, get_step_bin_path(fsStep[ws]))
    /\ Exists(ws, get_step_ca_bin_path(fsStep[ws]))

\* a toolchain command as the shell ran it: its exit status and the STEPPATH
\* it saw
Invocation(cmd, rc) == [cmd |-> cmd, rc |-> rc, steppath |-> env]

\* Entering an operation from the caller
Enter(op, ws) ==
    /\ caPc = "idle"
    /\ caOp' = op
    /\ caWs' = ws
    /\ UNCHANGED <<calls, downloads, decision, created, configured, rootWritten>>

\* the operation ends with result r
Finish(r) ==
    /\ caRes' = r
    /\ caPc' = "done"

\* download_step_bin lines 46-62 for the release of `bin`: the metadata request
\* fails, answers with an error status (warning, return) or with no matching
\* asset, or the archive is fetched and unpacked into <prefix>/step.
Download(ws, bin, outcome) ==
    /\ downloads' = downloads + 1
    /\ IF outcome = "unpacked"
         THEN /\ fsStep' = [fsStep EXCEPT ![ws] =
                               [exists |-> TRUE, names |-> @.names \cup {ReleaseDir}]]
              /\ fsBins' = [fsBins EXCEPT ![ws] = @ \cup {<<ReleaseDir, bin>>}]
         ELSE UNCHANGED <<fsStep, fsBins>>

DownloadOutcomes == {"connection_error", "http_error", "no_asset", "unpacked"}

\* the outcomes that leave download_step_bin by an exception: requests.get
\* fails, or urls[-1] finds the list empty
DownloadRaises == {"connection_error", "no_asset"}

DownloadError(outcome) ==
    IF outcome = "connection_error" THEN "ConnectionError" ELSE "IndexError"

------------------------------------------------------------------------------
\* install, lines 165-174
install ==
    \E ws \in Workspaces :
        /\ Enter("install", ws)
        /\ env' = ws
        /\ caRes' = IF IndexError \in {get_step_bin_path(fsStep[ws]),
                                       get_step_ca_bin_path(fsStep[ws])}
                      THEN "IndexError" ELSE "none"
        /\ caPc' = IF caRes' # "none" THEN "done"
                   ELSE IF BinariesPresent(ws) THEN "i_decide"
                   ELSE "i_confirm_dl"
        /\ UNCHANGED <<fsVars, caTok, caDec>>
        /\ UNCHANGED notCa

\* line 175: confirm(..., abort=True)
InstallConfirmDownload ==
    /\ caPc = "i_confirm_dl"
    /\ \E answer \in BOOLEAN :
         IF answer THEN caPc' = "i_dl_ca" /\ caRes' = caRes ELSE Finish("Abort")
    /\ UNCHANGED <<env, fsVars, caOp, caWs, caTok, caDec, calls, downloads, decision,
                   created, configured, rootWritten>>
    /\ UNCHANGED notCa

\* lines 176-177
InstallDownloadCa ==
    /\ caPc = "i_dl_ca"
    /\ \E outcome \in DownloadOutcomes :
         /\ Download(caWs, "step-ca", outcome)
         /\ IF outcome \in DownloadRaises
              THEN Finish(DownloadError(outcome))
              ELSE caPc' = "i_dl_cli" /\ caRes' = caRes
    /\ UNCHANGED <<env, fsConf, caOp, caWs, caTok, caDec, calls, decision, created,
                   configured, rootWritten>>
    /\ UNCHANGED notCa

\* lines 178-179
InstallDownloadCli ==
    /\ caPc = "i_dl_cli"
    /\ \E outcome \in DownloadOutcomes :
         /\ Download(caWs, "step", outcome)
         /\ IF outcome \in DownloadRaises
              THEN Finish(DownloadError(outcome))
              ELSE caPc' = "i_decide" /\ caRes' = caRes
    /\ UNCHANGED <<env, fsConf, caOp, caWs, caTok, caDec, calls, decision, created,
                   configured, rootWritten>>
    /\ UNCHANGED notCa

\* InstallDecide with the operator's answer ignored
InstallDecideAlwaysCreate ==
    /\ caPc = "i_decide"
    /\ IF ~fsConf[caWs].dir
         THEN decision' = "absent"
         ELSE \E answer \in BOOLEAN :
                decision' = IF answer THEN "confirmed" ELSE "declined"
    /\ caPc' = "c_prepare"
    /\ UNCHANGED <<env, fsVars, caOp, caWs, caTok, caDec, calls, downloads, created,
                   configured, rootWritten, caRes>>
    /\ UNCHANGED notCa

\* lines 180-183: not step_config_dir.exists() or confirm('CA exists, ...')
InstallDecide ==
    /\ caPc = "i_decide"
    /\ IF ~fsConf[caWs].dir
         THEN decision' = "absent"
         ELSE \E answer \in BOOLEAN :
                decision' = IF answer THEN "confirmed" ELSE "declined"
    /\ caPc' = IF decision' = "declined" THEN "i_configure" ELSE "c_prepare"
    /\ UNCHANGED <<env, fsVars, caOp, caWs, caTok, caDec, calls, downloads, created,
                   configured, rootWritten, caRes>>
    /\ UNCHANGED notCa

\* _create_ca lines 216-231: both directories are made, the password file is
\* written, the binaries are asserted, STEPPATH is set and step_config removed.
CreateCaPrepare ==
    /\ caPc = "c_prepare"
    /\ created' = TRUE
    /\ IF IndexError \in {get_step_bin_path(fsStep[caWs]),
                          get_step_ca_bin_path(fsStep[caWs])}
         THEN /\ Finish("IndexError")
              /\ fsConf' = [fsConf EXCEPT ![caWs] = IF @.dir THEN @ ELSE EmptyConf]
              /\ env' = env
         ELSE IF ~BinariesPresent(caWs)
           THEN /\ Finish("AssertionError")
                /\ fsConf' = [fsConf EXCEPT ![caWs] = IF @.dir THEN @ ELSE EmptyConf]
                /\ env' = env
           ELSE /\ caPc' = "c_init"
                /\ caRes' = caRes
                /\ fsConf' = [fsConf EXCEPT ![caWs] = NoConf]
                /\ env' = caWs
    /\ UNCHANGED <<fsStep, fsBins, caOp, caWs, caTok, caDec, calls, downloads, decision,
                   configured, rootWritten>>
    /\ UNCHANGED notCa

\* The exit statuses a toolchain command can have: it can succeed only when
\* the files it works on are there.
ExitCodes(ok) == IF ok THEN {0, 1} ELSE {1}

\* lines 232-234: call(...) returns the exit status, which is dropped
CreateCaInit ==
    /\ caPc = "c_init"
    /\ \E rc \in {0, 1} :
         /\ calls' = Append(calls, Invocation("ca init", rc))
         /\ fsConf' = [fsConf EXCEPT ![caWs] = IF rc = 0 THEN ConfWith(InitFile) ELSE @]
    /\ caPc' = "c_prov_remove"
    /\ UNCHANGED <<env, fsStep, fsBins, caOp, caWs, caTok, caDec, downloads, decision,
                   created, configured, rootWritten, caRes>>
    /\ UNCHANGED notCa

\* line 236
CreateCaProvisionerRemove ==
    /\ caPc = "c_prov_remove"
    /\ \E rc \in ExitCodes(fsConf[caWs].json) :
         calls' = Append(calls, Invocation("ca provisioner remove", rc))
    /\ caPc' = "c_jwk"
    /\ UNCHANGED <<env, fsVars, caOp, caWs, caTok, caDec, downloads, decision, created,
                   configured, rootWritten, caRes>>
    /\ UNCHANGED notCa

\* lines 237-238
CreateCaJwkCreate ==
    /\ caPc = "c_jwk"
    /\ \E rc \in ExitCodes(fsConf[caWs].json) :
         calls' = Append(calls, Invocation("crypto jwk create", rc))
    /\ caPc' = "c_prov_add"
    /\ UNCHANGED <<env, fsVars, caOp, caWs, caTok, caDec, downloads, decision, created,
                   configured, rootWritten, caRes>>
    /\ UNCHANGED notCa

\* lines 239-242, after which _create_ca returns
CreateCaProvisionerAdd ==
    /\ caPc = "c_prov_add"
    /\ \E rc \in ExitCodes(fsConf[caWs].json) :
         calls' = Append(calls, Invocation("ca provisioner add", rc))
    /\ caPc' = "i_configure"
    /\ UNCHANGED <<env, fsVars, caOp, caWs, caTok, caDec, downloads, decision, created,
                   configured, rootWritten, caRes>>
    /\ UNCHANGED notCa

\* line 184: _configure(step_config_dir); open() raises FileNotFoundError
\* when config/ca.json is missing
InstallConfigure ==
    /\ caPc = "i_configure"
    /\ IF fsConf[caWs].json
         THEN /\ fsConf' = [fsConf EXCEPT ![caWs] = ConfWith(Configure(@.file))]
              /\ configured' = TRUE
              /\ Finish("ok")
         ELSE /\ Finish("FileNotFoundError")
              /\ UNCHANGED <<fsConf, configured>>
    /\ UNCHANGED <<env, fsStep, fsBins, caOp, caWs, caTok, caDec, calls, downloads,
                   decision, created, rootWritten>>
    /\ UNCHANGED notCa

------------------------------------------------------------------------------
\* get_token, lines 75-80
get_token ==
    \E ws \in Workspaces :
        /\ Enter("get_token", ws)
        /\ caTok' = <<>>
        /\ caDec' = Decoded("unset", <<>>, <<>>)
        /\ LET step_path == get_step_bin_path(fsStep[ws]) IN
             IF step_path = IndexError THEN Finish("IndexError")
             ELSE IF step_path = NoPath THEN Finish("Exception")
             ELSE caPc' = "g_token" /\ caRes' = "none"
        /\ UNCHANGED <<env, fsVars>>
        /\ UNCHANGED notCa

\* lines 85-92: check_output raises CalledProcessError on a non-zero exit; the
\* handler logs it and returns None
GetTokenCall ==
    /\ caPc = "g_token"
    /\ \E rc \in ExitCodes(Exists(caWs, get_step_bin_path(fsStep[caWs]))
                           /\ fsConf[caWs].json) :
         /\ calls' = Append(calls, Invocation("ca token", rc))
         /\ IF rc = 0 THEN caPc' = "g_read" /\ caRes' = caRes ELSE Finish("None")
    /\ UNCHANGED <<env, fsVars, caOp, caWs, caTok, caDec, downloads, decision, created,
                   configured, rootWritten>>
    /\ UNCHANGED notCa

\* lines 94-104
GetTokenReturn ==
    /\ caPc = "g_read"
    /\ IF fsConf[caWs].json
         THEN /\ caTok' = TokenJoin(IssuedRaw, RootCrtBytes)
              /\ Finish("ok")
         ELSE /\ caTok' = caTok
              /\ Finish("FileNotFoundError")
    /\ UNCHANGED <<env, fsVars, caOp, caWs, caDec, calls, downloads, decision, created,
                   configured, rootWritten>>
    /\ UNCHANGED notCa

------------------------------------------------------------------------------
\* certify that goes on to the binary whatever the decoding made of the token
certifyUnchecked ==
    \E ws \in Workspaces, token_with_cert \in TokenInputs :
        /\ Enter("certify", ws)
        /\ caTok' = token_with_cert
        /\ caDec' = CertifyDecode(token_with_cert)
        /\ caPc' = "k_resolve"
        /\ caRes' = "none"
        /\ UNCHANGED <<env, fsVars>>
        /\ UNCHANGED notCa

\* certify, lines 129-133: the output directory is made, the token split and
\* both segments decoded; any of the three exceptions leaves the function
certify ==
    \E ws \in Workspaces, token_with_cert \in TokenInputs :
        /\ Enter("certify", ws)
        /\ caTok' = token_with_cert
        /\ caDec' = CertifyDecode(token_with_cert)
        /\ IF caDec'.kind = "ok"
             THEN caPc' = "k_resolve" /\ caRes' = "none"
             ELSE Finish(caDec'.kind)
        /\ UNCHANGED <<env, fsVars>>
        /\ UNCHANGED notCa

\* lines 135-136
CertifyResolve ==
    /\ caPc = "k_resolve"
    /\ LET step_path == get_step_bin_path(fsStep[caWs]) IN
         IF step_path = IndexError THEN Finish("IndexError")
         ELSE IF step_path = NoPath THEN caPc' = "k_confirm_dl" /\ caRes' = caRes
         ELSE caPc' = "k_write" /\ caRes' = caRes
    /\ UNCHANGED <<env, fsVars, caOp, caWs, caTok, caDec, calls, downloads, decision,
                   created, configured, rootWritten>>
    /\ UNCHANGED notCa

\* lines 138 and 44-45: download_step_bin asks first (confirmation=True)
CertifyConfirmDownload ==
    /\ caPc = "k_confirm_dl"
    /\ \E answer \in BOOLEAN :
         IF answer THEN caPc' = "k_dl" /\ caRes' = caRes ELSE Finish("Abort")
    /\ UNCHANGED <<env, fsVars, caOp, caWs, caTok, caDec, calls, downloads, decision,
                   created, configured, rootWritten>>
    /\ UNCHANGED notCa

\* lines 138-141: the download, then the second lookup
CertifyDownload ==
    /\ caPc = "k_dl"
    /\ \E outcome \in DownloadOutcomes :
         /\ Download(caWs, "step", outcome)
         /\ IF outcome \in DownloadRaises
              THEN Finish(DownloadError(outcome))
              ELSE LET step_path == get_step_bin_path(fsStep'[caWs]) IN
                   IF step_path = IndexError THEN Finish("IndexError")
                   ELSE IF step_path = NoPath THEN Finish("Exception")
                   ELSE caPc' = "k_write" /\ caRes' = caRes
    /\ UNCHANGED <<env, fsConf, caOp, caWs, caTok, caDec, calls, decision, created,
                   configured, rootWritten>>
    /\ UNCHANGED notCa

\* lines 143-144
CertifyWriteRoot ==
    /\ caPc = "k_write"
    /\ rootWritten' = TRUE
    /\ caPc' = "k_cert"
    /\ UNCHANGED <<env, fsVars, caOp, caWs, caTok, caDec, calls, downloads, decision,
                   created, configured, caRes>>
    /\ UNCHANGED notCa

\* lines 145-146: call(...) returns the exit status, which is dropped
CertifyCall ==
    /\ caPc = "k_cert"
    /\ \E rc \in ExitCodes(Exists(caWs, get_step_bin_path(fsStep[caWs]))) :
         calls' = Append(calls, Invocation("ca certificate", rc))
    /\ Finish("ok")
    /\ UNCHANGED <<env, fsVars, caOp, caWs, caTok, caDec, downloads, decision, created,
                   configured, rootWritten>>
    /\ UNCHANGED notCa

\* the operation is over, by return or by exception; the caller goes on and
\* the bookkeeping of the operation is cleared
CaReturn ==
    /\ caPc = "done"
    /\ caPc' = "idle"
    /\ caOp' = "none"
    /\ caWs' = "wsA"
    /\ caTok' = <<>>
    /\ caDec' = Decoded("unset", <<>>, <<>>)
    /\ calls' = <<>>
    /\ downloads' = 0
    /\ decision' = "none"
    /\ created' = FALSE
    /\ configured' = FALSE
    /\ rootWritten' = FALSE
    /\ caRes' = "none"
    /\ UNCHANGED <<env, fsVars>>
    /\ UNCHANGED notCa

Next ==
    \/ install
    \/ InstallConfirmDownload
    \/ InstallDownloadCa
    \/ InstallDownloadCli
    \/ InstallDecide
    \/ CreateCaPrepare
    \/ CreateCaInit
    \/ CreateCaProvisionerRemove
    \/ CreateCaJwkCreate
    \/ CreateCaProvisionerAdd
    \/ InstallConfigure
    \/ get_token
    \/ GetTokenCall
    \/ GetTokenReturn
    \/ certify
    \/ CertifyResolve
    \/ CertifyConfirmDownload
    \/ CertifyDownload
    \/ CertifyWriteRoot
    \/ CertifyCall
    \/ CaReturn

(***************************************************************************)
(* Process manager                                                         *)
(***************************************************************************)
PmInit ==
    /\ procs \in SUBSET {1}
    /\ nextPid = 2
    /\ pmPc = "idle"
    /\ pmOp = "none"
    /\ pids = <<>>
    /\ todo = 1
    /\ killed = {}
    /\ prompted = FALSE
    /\ slept = FALSE
    /\ ret = "none"
    /\ launched = FALSE
    /\ srv = 0
    /\ wsRemoved = FALSE

PmOff ==
    /\ procs = {}
    /\ nextPid = 1
    /\ pmPc = "idle"
    /\ pmOp = "none"
    /\ pids = <<>>
    /\ todo = 1
    /\ killed = {}
    /\ prompted = FALSE
    /\ slept = FALSE
    /\ ret = "none"
    /\ launched = FALSE
    /\ srv = 0
    /\ wsRemoved = FALSE

\* The confirmation argument of the running call: run_ca passes True,
\* remove_ca leaves the default False.
Confirmation == pmOp = "run_ca"

PmEnter(op) ==
    /\ pmPc = "idle"
    /\ pmOp' = op
    /\ pmPc' = "scan"
    /\ pids' = <<>>
    /\ todo' = 1
    /\ killed' = {}
    /\ prompted' = FALSE
    /\ slept' = FALSE
    /\ ret' = "none"
    /\ launched' = FALSE
    /\ wsRemoved' = FALSE
    /\ UNCHANGED <<procs, nextPid, srv>>
    /\ UNCHANGED notPm

run_ca == PmEnter("run_ca")

remove_ca == PmEnter("remove_ca")

\* CheckKillScan with the prompt moved in front of the `if len(pids)` test
CheckKillScanPromptFirst ==
    /\ pmPc = "scan"
    /\ pids' = PsPids(procs)
    /\ ret' = IF procs = {} /\ ~Confirmation THEN "True" ELSE ret
    /\ pmPc' = IF Confirmation THEN "confirm"
               ELSE IF procs = {} THEN "returned" ELSE "kill"
    /\ UNCHANGED <<procs, nextPid, pmOp, todo, killed, prompted, slept, launched,
                   srv, wsRemoved>>
    /\ UNCHANGED notPm

\* lines 196-205: run ps, collect the pids, branch on len(pids)
CheckKillScan ==
    /\ pmPc = "scan"
    /\ pids' = PsPids(procs)
    /\ IF procs = {}
         THEN /\ ret' = "True"
              /\ pmPc' = "returned"
         ELSE /\ ret' = ret
              /\ pmPc' = IF Confirmation THEN "confirm" ELSE "kill"
    /\ UNCHANGED <<procs, nextPid, pmOp, todo, killed, prompted, slept, launched,
                   srv, wsRemoved>>
    /\ UNCHANGED notPm

\* line 206-207: the prompt, and the early return False when the user declines
CheckKillConfirm ==
    /\ pmPc = "confirm"
    /\ prompted' = TRUE
    /\ \E answer \in BOOLEAN :
         IF answer
           THEN /\ pmPc' = "kill"
                /\ ret' = ret
           ELSE /\ pmPc' = "returned"
                /\ ret' = "False"
    /\ UNCHANGED <<procs, nextPid, pmOp, pids, todo, killed, slept, launched, srv,
                   wsRemoved>>
    /\ UNCHANGED notPm

\* One iteration of the loop of lines 208-209.  os.kill raises
\* ProcessLookupError when the process is gone and PermissionError when it
\* belongs to another user; the exception leaves the function.
KillOne ==
    /\ pmPc = "kill"
    /\ todo <= Len(pids)
    /\ LET pid == pids[todo] IN
         \/ /\ pid \in procs
            /\ procs' = procs \ {pid}
            /\ killed' = killed \cup {pid}
            /\ todo' = todo + 1
            /\ pmPc' = pmPc
         \/ /\ pid \in procs
            /\ pmPc' = "raised"
            /\ UNCHANGED <<procs, killed, todo>>
         \/ /\ pid \notin procs
            /\ pmPc' = "raised"
            /\ UNCHANGED <<procs, killed, todo>>
    /\ UNCHANGED <<nextPid, pmOp, pids, prompted, slept, ret, launched, srv, wsRemoved>>
    /\ UNCHANGED notPm

\* CheckKillSleep with the loop left after its first iteration
CheckKillSleepFirstOnly ==
    /\ pmPc = "kill"
    /\ todo > 1
    /\ slept' = TRUE
    /\ ret' = "True"
    /\ pmPc' = "returned"
    /\ UNCHANGED <<procs, nextPid, pmOp, pids, todo, killed, prompted, launched, srv,
                   wsRemoved>>
    /\ UNCHANGED notPm

\* lines 210-211: the fixed pause, then return True
CheckKillSleep ==
    /\ pmPc = "kill"
    /\ todo > Len(pids)
    /\ slept' = TRUE
    /\ ret' = "True"
    /\ pmPc' = "returned"
    /\ UNCHANGED <<procs, nextPid, pmOp, pids, todo, killed, prompted, launched, srv,
                   wsRemoved>>
    /\ UNCHANGED notPm

\* RunCaLaunch with the result of the kill-check ignored
RunCaLaunchUnchecked ==
    /\ pmPc = "returned"
    /\ pmOp = "run_ca"
    /\ nextPid <= MaxPid
    /\ launched' = TRUE
    /\ srv' = nextPid
    /\ procs' = procs \cup {nextPid}
    /\ nextPid' = nextPid + 1
    /\ pmPc' = "serving"
    /\ UNCHANGED <<pmOp, pids, todo, killed, prompted, slept, ret, wsRemoved>>
    /\ UNCHANGED notPm

\* line 189-191: the server is started only under the if
RunCaLaunch ==
    /\ pmPc = "returned"
    /\ pmOp = "run_ca"
    /\ ret = "True"
    /\ nextPid <= MaxPid
    /\ launched' = TRUE
    /\ srv' = nextPid
    /\ procs' = procs \cup {nextPid}
    /\ nextPid' = nextPid + 1
    /\ pmPc' = "serving"
    /\ UNCHANGED <<pmOp, pids, todo, killed, prompted, slept, ret, wsRemoved>>
    /\ UNCHANGED notPm

\* line 189: a False result skips the body of the if and run_ca returns
RunCaSkip ==
    /\ pmPc = "returned"
    /\ pmOp = "run_ca"
    /\ ret = "False"
    /\ pmPc' = "idle"
    /\ UNCHANGED <<procs, nextPid, pmOp, pids, todo, killed, prompted, slept, ret,
                   launched, srv, wsRemoved>>
    /\ UNCHANGED notPm

\* line 191: call() blocks until the server process has exited
RunCaReturn ==
    /\ pmPc = "serving"
    /\ srv \notin procs
    /\ srv' = 0
    /\ pmPc' = "idle"
    /\ UNCHANGED <<procs, nextPid, pmOp, pids, todo, killed, prompted, slept, ret,
                   launched, wsRemoved>>
    /\ UNCHANGED notPm

\* line 152: remove_ca ignores the result and removes the directory
RemoveCaRmtree ==
    /\ pmPc = "returned"
    /\ pmOp = "remove_ca"
    /\ wsRemoved' = TRUE
    /\ pmPc' = "idle"
    /\ UNCHANGED <<procs, nextPid, pmOp, pids, todo, killed, prompted, slept, ret,
                   launched, srv>>
    /\ UNCHANGED notPm

\* an exception ends the operation; the next one starts from the prompt
PmAbort ==
    /\ pmPc = "raised"
    /\ pmPc' = "idle"
    /\ UNCHANGED <<procs, nextPid, pmOp, pids, todo, killed, prompted, slept, ret,
                   launched, srv, wsRemoved>>
    /\ UNCHANGED notPm

\* The host: a matching process is started by someone else, or exits by itself.
ProcStart ==
    /\ nextPid <= MaxPid
    /\ procs' = procs \cup {nextPid}
    /\ nextPid' = nextPid + 1
    /\ UNCHANGED <<pmPc, pmOp, pids, todo, killed, prompted, slept, ret, launched, srv,
                   wsRemoved>>
    /\ UNCHANGED notPm

ProcExit ==
    /\ \E p \in procs : procs' = procs \ {p}
    /\ UNCHANGED <<nextPid, pmPc, pmOp, pids, todo, killed, prompted, slept, ret,
                   launched, srv, wsRemoved>>
    /\ UNCHANGED notPm

PmNext ==
    \/ run_ca
    \/ remove_ca
    \/ CheckKillScan
    \/ CheckKillConfirm
    \/ KillOne
    \/ CheckKillSleep
    \/ RunCaLaunch
    \/ RunCaSkip
    \/ RunCaReturn
    \/ RemoveCaRmtree
    \/ PmAbort
    \/ ProcStart
    \/ ProcExit

InitPM == PmInit /\ BnOff /\ TkOff /\ CfOff /\ CaOff

SpecPM == InitPM /\ [][PmNext]_vars

(***************************************************************************)
(* Claims about the process manager (checked under SpecPM)                 *)
(***************************************************************************)

\* C1: run_ca launches the server only after the kill-check returned True:
\* whenever the launch has happened, every pid found at scan time was killed
\* and is no longer running, and after a declined prompt (result False) the
\* server is not launched.
C1_LaunchOnlyWhenSafe ==
    /\ launched =>
          (ret = "True" /\ \A p \in Range(pids) : p \in killed /\ p \notin procs)
    /\ (pmOp = "run_ca" /\ ret = "False") => (~launched /\ srv = 0)

C1_Witness == launched /\ pids # <<>> /\ prompted /\ pmPc = "serving"

\* C4: with no matching process _check_kill_process returns True and kills,
\* prompts and sleeps not at all, under either value of the confirmation flag.
C4_NoMatchIsSafe ==
    (pmOp # "none" /\ pmPc # "scan" /\ pids = <<>>) =>
        /\ ret = "True"
        /\ killed = {}
        /\ ~prompted
        /\ ~slept
        /\ pmPc \notin {"confirm", "kill", "raised"}

C4_Witness == pmOp = "run_ca" /\ pmPc = "returned" /\ pids = <<>> /\ ret = "True"

InitBin == BnInit /\ PmOff /\ TkOff /\ CfOff /\ CaOff

SpecBin == InitBin /\ [][BnNext]_vars

BinOf(fn) == IF fn = "get_step_bin_path" THEN "step" ELSE "step-ca"

\* C8: the resolver returns the executable path under the lexicographically
\* maximal entry name, and returns None, without raising, whenever no version
\* is installed: when <ca_path>/step is absent and when it exists but is empty.
C8_ResolveBinaryPath ==
    bnResult.fn # "unset" =>
        IF bnListing.names = {}
          THEN bnResult.out = NoPath
          ELSE /\ bnResult.out.kind = "path"
               /\ bnResult.out.bin = BinOf(bnResult.fn)
               /\ bnResult.out.dir \in bnListing.names
               /\ \A n \in bnListing.names \ {bnResult.out.dir} :
                      StrLess(n, bnResult.out.dir)

(***************************************************************************)
(* Claims about the token wire format (checked under SpecTok)              *)
(***************************************************************************)
InitTok == TkInit /\ PmOff /\ BnOff /\ CfOff /\ CaOff

SpecTok == InitTok /\ [][TkNext]_vars

\* str.encode('utf-8') of a sequence of code points
RECURSIVE Utf8Encode(_)
Utf8Encode(t) ==
    IF t = <<>> THEN <<>>
    ELSE (IF t[1] < 128 THEN <<t[1]>>
          ELSE IF t[1] < 2048 THEN <<192 + (t[1] \div 64), 128 + (t[1] % 64)>>
          ELSE IF t[1] < 65536
            THEN <<224 + (t[1] \div 4096), 128 + ((t[1] \div 64) % 64), 128 + (t[1] % 64)>>
          ELSE <<240 + (t[1] \div 262144), 128 + ((t[1] \div 4096) % 64),
                 128 + ((t[1] \div 64) % 64), 128 + (t[1] % 64)>>) \o Utf8Encode(Tail(t))

Count(s, c) == Cardinality({i \in 1..Len(s) : s[i] = c})

\* the stripped toolchain output: the token bytes T that get_token encodes
TokenBytes == Strip(tkRaw)

RoundTrip ==
    /\ tkOut.kind = "ok"
    /\ Utf8Encode(tkOut.token) = TokenBytes
    /\ tkOut.root_ca = tkRoot

\* C3 as stated: for every T and R the string get_token builds holds exactly
\* one delimiter and certify's split and decode recover exactly (T, R).
C3_RoundTripAnyBytes ==
    /\ (tkPc # "start") => (Count(tkStr, TOKEN_DELIMITER) = 1)
    /\ (tkPc = "decoded") => RoundTrip

\* C3 amended: the string holds exactly one delimiter for every T and R, and
\* certify recovers exactly (T, R) whenever T is valid UTF-8; for any other T
\* certify raises UnicodeDecodeError on the token segment.
C3_RoundTripUtf8 ==
    /\ (tkPc # "start") => (Count(tkStr, TOKEN_DELIMITER) = 1 /\ Len(Split(tkStr)) = 2)
    /\ (tkPc = "decoded") =>
          (IF Utf8Decode(TokenBytes).ok
             THEN RoundTrip
             ELSE tkOut.kind = "UnicodeDecodeError")

C3_Witness ==
    /\ tkPc = "decoded"
    /\ tkOut.kind = "ok"
    /\ TokenBytes = <<46, 195, 169>>
    /\ tkRoot = <<255, 46>>

(***************************************************************************)
(* Claims about the certificate-lifetime patch (checked under SpecConf)    *)
(***************************************************************************)
InitConf == CfInit /\ PmOff /\ BnOff /\ TkOff /\ CaOff

SpecConf == InitConf /\ [][CfNext]_vars

\* the members of object `name` of d, none when d has no such object
Members(d, name) == IF name \in Keys(d) THEN Get(d, name).o ELSE <<>>

\* the keys of d outside `except`, in file order
RECURSIVE KeyOrder(_, _)
KeyOrder(d, except) ==
    IF d = <<>> THEN <<>>
    ELSE IF d[1][1] \in except THEN KeyOrder(Tail(d), except)
    ELSE <<d[1][1]>> \o KeyOrder(Tail(d), except)

\* new has the members of old outside `except`, with their values and order,
\* and no other member outside `except`
SameExcept(old, new, except) ==
    /\ KeyOrder(new, except) = KeyOrder(old, except)
    /\ \A k \in Keys(old) \ except : Get(new, k) = Get(old, k)

DurationsSet(doc) ==
    LET claims == Members(Members(doc, "authority"), "claims") IN
    /\ DurationKeys \subseteq Keys(claims)
    /\ Get(claims, "maxTLSCertDuration") = Str("8760h")
    /\ Get(claims, "defaultTLSCertDuration") = Str("8760h")
    /\ Get(claims, "maxUserSSHCertDuration") = Str("24h")
    /\ Get(claims, "defaultUserSSHCertDuration") = Str("24h")

FramePreserved(old, new) ==
    /\ SameExcept(old, new, {"authority"})
    /\ SameExcept(Members(old, "authority"), Members(new, "authority"), {"claims"})
    /\ SameExcept(Members(Members(old, "authority"), "claims"),
                  Members(Members(new, "authority"), "claims"), DurationKeys)

\* C7: after one _configure the four durations are "8760h", "8760h", "24h",
\* "24h", every other member of the document, of authority and of
\* authority.claims is as before, and a second _configure leaves the file
\* identical to the output of the first.
C7_PatchIdempotent ==
    /\ (cfRuns >= 1) => (DurationsSet(cfFile.doc) /\ FramePreserved(cfOrig.doc, cfFile.doc))
    /\ (cfRuns >= 2) => (cfFile = cfPrev)

C7_Witness ==
    /\ cfRuns = 2
    /\ cfOrig.indent = 2
    /\ "root" \in Keys(cfOrig.doc)
    /\ "provisioners" \in Keys(Members(cfOrig.doc, "authority"))
    /\ Members(Members(cfOrig.doc, "authority"), "claims")
          = <<<<"maxTLSCertDuration", Str("5m")>>, <<"minTLSCertDuration", Str("5m")>>>>

(***************************************************************************)
(* Claims about the CA workflow (checked under Spec)                       *)
(***************************************************************************)
Init == CaInit /\ PmOff /\ BnOff /\ TkOff /\ CfOff

Spec == Init /\ [][Next]_vars

DecodeErrors == {"ValueError", "binascii.Error", "UnicodeDecodeError"}

\* the token does not split into exactly two segments, or a segment is not
\* decodable base64
Malformed(tok) ==
    \/ Len(Split(tok)) # 2
    \/ ~b64decode(Split(tok)[1]).ok
    \/ ~b64decode(Split(tok)[2]).ok

\* C2: certify given a malformed token ends in an exception before anything of
\* the toolchain is touched: no download, no root_ca.crt written, no command
\* run.
C2_MalformedTokenFailsFirst ==
    (caOp = "certify" /\ Malformed(caTok)) =>
        /\ caPc = "done"
        /\ caRes \in DecodeErrors
        /\ downloads = 0
        /\ ~rootWritten
        /\ calls = <<>>

C2_Witness ==
    /\ caOp = "certify"
    /\ caRes = "binascii.Error"
    /\ Len(Split(caTok)) = 2
    /\ ~fsStep[caWs].exists

\* C6 as stated: install calls _create_ca exactly when step_config is absent or
\* the operator confirms (a declined prompt leaves the configuration neither
\* removed nor re-initialized), and on every path that reaches that decision
\* the lifetime patch is applied afterwards.
CreateIffDecided ==
    /\ (caOp = "install" /\ caPc \in {"i_configure", "done"} /\ decision # "none") =>
          (created <=> decision \in {"absent", "confirmed"})
    /\ (caOp = "install" /\ decision = "declined") =>
          (~created /\ calls = <<>> /\ fsConf[caWs].dir)
    /\ created => (decision \in {"absent", "confirmed"})

C6_PatchOnEveryPath ==
    /\ CreateIffDecided
    /\ (caOp = "install" /\ caPc = "done" /\ decision # "none") => configured

\* how install ends when it reached the decision and did not patch
NotPatchedBecauseRaised ==
    \/ (caRes \in {"AssertionError", "IndexError"} /\ created /\ calls = <<>>)
    \/ (caRes = "FileNotFoundError" /\ ~fsConf[caWs].json)

PatchedFile(file) ==
    /\ file = Configure(file)
    /\ Get(Get(Get(file.doc, "authority").o, "claims").o, "maxTLSCertDuration")
          = Str("8760h")

\* C6 amended: the same decision rule, and the lifetime patch is applied, after
\* any _create_ca step, on every path that reaches the decision and on which
\* install returns; the other paths end in an exception: AssertionError (or
\* IndexError) out of _create_ca when the binaries are missing, and
\* FileNotFoundError out of _configure when config/ca.json does not exist.
C6_PatchUnlessRaised ==
    /\ CreateIffDecided
    /\ (caOp = "install" /\ caPc = "done" /\ decision # "none") =>
          ((configured <=> (caRes = "ok")) /\ (~configured => NotPatchedBecauseRaised))
    /\ configured =>
          (caOp = "install" /\ caPc = "done" /\ fsConf[caWs].json
             /\ PatchedFile(fsConf[caWs].file))

C6_Witness ==
    /\ caOp = "install"
    /\ caPc = "done"
    /\ decision = "confirmed"
    /\ created
    /\ Len(calls) = 4
    /\ configured

\* C9: whenever an operation runs a toolchain command, STEPPATH names the
\* step_config directory of the workspace the operation was called with.
C9_StepPathSet ==
    \A i \in 1..Len(calls) : calls[i].steppath = caWs

\* C10: _create_ca and certify are fail-fast: no toolchain command runs after
\* one that exited non-zero, and install / certify do not end as a success
\* when one of their commands failed.
C10_FailFast ==
    caOp \in {"install", "certify"} =>
        /\ (\A i \in 1..(Len(calls) - 1) : calls[i].rc = 0)
        /\ ((caRes = "ok") => (\A i \in 1..Len(calls) : calls[i].rc = 0))
====
